---- MODULE Spec2Model ----
(***************************************************************************)
(* Model of cvat_data_flow: the dataset transform pipeline                 *)
(* (CustomDataset.export_dataset: split -> remap -> reindex -> export),    *)
(* the patched COCO category export and the COCO -> YOLO converter         *)
(* (COCOConverter).                                                        *)
(*                                                                         *)
(* Numbers: pixel coordinates are integers; a normalized coordinate is the *)
(* exact fraction <<numerator, denominator>> of the float64 division the   *)
(* code performs (the comparisons with 0 and 1 the model makes are         *)
(* preserved by correctly rounded division).                               *)
(***************************************************************************)
EXTENDS Integers, Sequences, FiniteSets, TLC

VARIABLES
    splits,             \* CustomDataset.splits: None or Some(<<<<name, tenths>>, ...>>)
    mapping,            \* CustomDataset.mapping: None or Some(<<<<source, target>>, ...>>)
    labels_id_mapping,  \* CustomDataset.labels_id_mapping: None or Some([name -> id])
    export_format,      \* CustomDataset.export_format
    categories,         \* label_categories.items: the category names, in order
    indices,            \* label_categories._indices: name -> index
    items,              \* the items of self.dataset, in iteration order
    pc,                 \* position of export_dataset
    steps,              \* history: the steps export_dataset has executed, in order
    raised,             \* history: the exception that ended export_dataset, or "none"
    before,             \* history: the dataset as it was when _reindex_labels was called
    coco_json,          \* <path>/annotations/instances_<subset>.json, by subset
    other_export,       \* what dataset.export wrote for a format other than coco / yolo
    conv,               \* the COCOConverter in use: its fields and the position of _to_yolo
    labels,             \* <save_dir>/<subset>/<img_name>.txt: the lines of every label file
    manifest,           \* dataset.yaml: None or Some(record)
    segmentation,       \* the rings a direct call of the stitcher is given
    nearest,            \* what _min_index returned for the first two rings, or None
    merged,             \* what _merge_multi_segment did: None, or Some([raised, s])
    raw_data_exists,    \* os.path.exists(CVATDataFlow.raw_data_path)
    save_path,          \* the argument of CVATDataFlow.build_dataset: None or Some(path)
    build,              \* the call of build_dataset: its position and what it gave
    options,            \* the Options main reads: only_build_dataset, save_path, format
    raw_entries,        \* len(os.listdir(raw_data_path))
    dirs,               \* the directories <path>_<format> that exist, as <<path, format>>
    runs                \* history: what every run of main did, in order

vars == <<splits, mapping, labels_id_mapping, export_format, categories, indices, items,
          pc, steps, raised, before, coco_json, other_export, conv, labels, manifest,
          segmentation, nearest, merged, raw_data_exists, save_path, build,
          options, raw_entries, dirs, runs>>

config == <<splits, mapping, labels_id_mapping, export_format>>
dataset == <<categories, indices, items>>
outputs == <<coco_json, other_export, labels, manifest>>
stitcher == <<segmentation, nearest, merged>>
builder == <<raw_data_exists, save_path, build>>
cli == <<options, raw_entries, dirs, runs>>

(***************************************************************************)
(* Bounds of the model.                                                    *)
(***************************************************************************)
MaxItems == 2   \* items (images) of the merged dataset
MaxAnns == 3    \* annotations of the merged dataset, over all items
MaxRings == 3   \* rings of a segmentation the stitcher is called with directly
MaxRuns == 2    \* runs of main, one after the other
MaxEntries == 2 \* entries of the raw data directory

(***************************************************************************)
(* Python values.                                                          *)
(***************************************************************************)
None == <<>>
Some(v) == <<v>>
IsNone(o) == Len(o) = 0
Val(o) == o[1]

EmptyDict == [k \in {} |-> 0]

RECURSIVE SumSeq(_)
SumSeq(s) == IF s = <<>> THEN 0 ELSE Head(s) + SumSeq(Tail(s))

RECURSIVE Flatten(_)
Flatten(ss) == IF ss = <<>> THEN <<>> ELSE Head(ss) \o Flatten(Tail(ss))

SetMax(S) == CHOOSE m \in S : \A k \in S : k <= m

\* dict(pairs).get(key, default): the last pair with that key wins
DictGet(pairs, key, default) ==
    LET hits == {i \in 1..Len(pairs) : pairs[i][1] = key}
    IN  IF hits = {} THEN default ELSE pairs[SetMax(hits)][2]

\* {v: k for k, v in d.items()}: for a value held by several keys the last key in the
\* dict's insertion order wins; the order of the keys of d is `order`
RECURSIVE InvertDict(_, _)
InvertDict(d, order) ==
    IF order = <<>> THEN EmptyDict
    ELSE LET k == order[Len(order)]
             rest == InvertDict(d, SubSeq(order, 1, Len(order) - 1))
         IN  IF k \in DOMAIN d THEN (d[k] :> k) @@ rest ELSE rest

\* position (1-based) of x in the sequence s, 0 when absent
Find(s, x) ==
    LET hits == {i \in 1..Len(s) : s[i] = x}
    IN  IF hits = {} THEN 0 ELSE CHOOSE i \in hits : \A j \in hits : i <= j

(***************************************************************************)
(* The inputs: the merged dataset CustomDataset.__init__ builds and the    *)
(* configuration it is given.                                              *)
(***************************************************************************)
CategoryNames == <<"cat", "dog", "bird">>

\* How the names of items and subsets are spelled: the pieces of a name and the
\* separators "." and "_" between them.
Spelling ==
    ("a" :> <<"a">>) @@ ("b" :> <<"b">>) @@ ("c" :> <<"c">>) @@ ("d" :> <<"d">>)
    @@ ("a.1" :> <<"a", ".", "1">>) @@ ("a.2" :> <<"a", ".", "2">>)
    @@ ("default" :> <<"default">>) @@ ("train" :> <<"train">>) @@ ("val" :> <<"val">>)
    @@ ("test" :> <<"test">>) @@ ("my_train" :> <<"my", "_", "train">>)
    @@ ("train.v2" :> <<"train", ".", "v2">>)
Spell(name) == Spelling[name]
Unspell(pieces) == CHOOSE name \in DOMAIN Spelling : Spelling[name] = pieces

\* str.split(sep): the parts of a spelled string between the occurrences of sep
RECURSIVE SplitStr(_, _)
SplitStr(pieces, sep) ==
    IF Find(pieces, sep) = 0 THEN <<pieces>>
    ELSE <<SubSeq(pieces, 1, Find(pieces, sep) - 1)>>
         \o SplitStr(SubSeq(pieces, Find(pieces, sep) + 1, Len(pieces)), sep)

\* the media file of an item and the JSON of a subset, as the COCO export names them
FileName(id) == Spell(id) \o <<".", "jpg">>
JsonName(subset) == <<"instances", "_">> \o Spell(subset) \o <<".", "json">>
ItemIds == <<"a", "b", "c", "d">>
ImageSize == [width |-> 4, height |-> 2]

\* an image of 4 x 2 pixels; the shapes an annotation can have on it: a plain box, a
\* crowd region, a box of width 0, a box reaching over the image's border (x < 0 and
\* w > width), a polygon of one ring and a polygon of two rings
PlainShape == [is_crowd |-> FALSE, bbox |-> <<0, 0, 2, 2>>, segmentation |-> <<>>]
Shapes ==
    { PlainShape,
      [is_crowd |-> TRUE,  bbox |-> <<1, 0, 2, 1>>,
       segmentation |-> << <<<<1, 0>>, <<3, 0>>, <<3, 1>>>> >>],
      [is_crowd |-> FALSE, bbox |-> <<1, 1, 0, 1>>, segmentation |-> <<>>],
      [is_crowd |-> FALSE, bbox |-> <<-1, 0, 6, 1>>, segmentation |-> <<>>],
      [is_crowd |-> FALSE, bbox |-> <<2, 0, 2, 2>>,
       segmentation |-> << <<<<2, 0>>, <<4, 0>>, <<4, 2>>>> >>],
      [is_crowd |-> FALSE, bbox |-> <<0, 0, 4, 1>>,
       segmentation |-> << <<<<0, 0>>, <<1, 0>>, <<1, 1>>>>,
                           <<<<3, 1>>, <<2, 0>>, <<4, 0>>>> >>] }

Annotation(label, shape) ==
    [label |-> label, is_crowd |-> shape.is_crowd, bbox |-> shape.bbox,
     segmentation |-> shape.segmentation]

RECURSIVE SeqsUpTo(_, _)
SeqsUpTo(S, n) ==
    IF n = 0 THEN {<<>>}
    ELSE LET shorter == SeqsUpTo(S, n - 1)
         IN  shorter \cup {Append(s, x) : s \in {t \in shorter : Len(t) = n - 1}, x \in S}

\* the annotation lists of at most nItems items holding at most nAnns annotations in all
RECURSIVE AnnotationLists(_, _, _)
AnnotationLists(A, nItems, nAnns) ==
    IF nItems = 0 THEN {<<>>}
    ELSE {<<>>} \cup
         UNION { {<<l>> \o rest : rest \in AnnotationLists(A, nItems - 1, nAnns - Len(l))}
                 : l \in SeqsUpTo(A, nAnns) }

MakeItems(lists) ==
    [k \in 1..Len(lists) |->
        [id |-> ItemIds[k], subset |-> "default",
         width |-> ImageSize.width, height |-> ImageSize.height,
         annotations |-> lists[k]]]

Datasets(A) == {MakeItems(l) : l \in AnnotationLists(A, MaxItems, MaxAnns)}

NameIndex(names) == [n \in {names[k] : k \in 1..Len(names)} |-> Find(names, n) - 1]

SplitsOptions ==
    { None,
      Some(<<<<"train", 7>>, <<"val", 3>>>>),
      Some(<<<<"train", 7>>, <<"val", 2>>>>) }
MappingOptions == { None, Some(<<<<"dog", "cat">>>>) }
TableOptions ==
    { None,
      Some(("cat" :> 0) @@ ("dog" :> 1) @@ ("bird" :> 2)),
      Some(("cat" :> 5) @@ ("bird" :> 0)),
      Some(("cat" :> 5)),
      Some(("cat" :> 5) @@ ("dog" :> 2) @@ ("bird" :> 5)) }
FormatOptions == {"coco", "yolo_seg", "voc"}

(***************************************************************************)
(* random_split (datumaro): the weights must sum to 1 (tenths here); every *)
(* item draws one of the subset names.                                     *)
(***************************************************************************)
SplitWeights(sp) == [k \in 1..Len(sp) |-> sp[k][2]]
SplitNames(sp) == {sp[k][1] : k \in 1..Len(sp)}
\* SplitsValid, were random_split to take any weights
SplitsValidAnySum(sp) == Len(sp) > 0

SplitsValid(sp) == Len(sp) > 0 /\ SumSeq(SplitWeights(sp)) = 10

(***************************************************************************)
(* remap_labels (datumaro RemapLabels, default action "keep"): a category  *)
(* that is a key of the mapping takes the target name, any other keeps its *)
(* name; the new label table lists the resulting names in order of first   *)
(* appearance, and every annotation's label follows its category.          *)
(***************************************************************************)
RECURSIVE MakeLabelIdMap(_, _, _, _)
MakeLabelIdMap(src, pairs, i, acc) ==
    IF i > Len(src) THEN acc
    ELSE LET dst == DictGet(pairs, src[i], src[i])
             at == Find(acc.categories, dst)
         IN  IF dst = "" THEN MakeLabelIdMap(src, pairs, i + 1, acc)
             ELSE MakeLabelIdMap(src, pairs, i + 1,
                    [categories |-> IF at = 0 THEN Append(acc.categories, dst)
                                    ELSE acc.categories,
                     id_mapping |-> ((i - 1) :> (IF at = 0 THEN Len(acc.categories)
                                                  ELSE at - 1)) @@ acc.id_mapping])

RemapAnnotations(anns, id_mapping) ==
    LET kept == SelectSeq(anns, LAMBDA a : a.label \in DOMAIN id_mapping)
    IN  [j \in 1..Len(kept) |-> [kept[j] EXCEPT !.label = id_mapping[kept[j].label]]]

\* RemapLabels, were the label table rebuilt and the annotations' labels left as they were
RemapLabelsKeepAnnotations(cats, its, pairs) ==
    LET m == MakeLabelIdMap(cats, pairs, 1, [categories |-> <<>>, id_mapping |-> EmptyDict])
    IN  [categories |-> m.categories,
         indices |-> NameIndex(m.categories),
         items |-> its]

RemapLabels(cats, its, pairs) ==
    LET m == MakeLabelIdMap(cats, pairs, 1, [categories |-> <<>>, id_mapping |-> EmptyDict])
    IN  [categories |-> m.categories,
         indices |-> NameIndex(m.categories),
         items |-> [i \in 1..Len(its) |->
                      [its[i] EXCEPT !.annotations = RemapAnnotations(@, m.id_mapping)]]]

(***************************************************************************)
(* CustomDataset._reindex_labels: the annotations are rewritten in place,  *)
(* one after the other in iteration order; a label or a name without an    *)
(* entry raises KeyError at that annotation, leaving the ones before it    *)
(* rewritten and the label table as it was.                                *)
(***************************************************************************)
Positions(its) ==
    Flatten([i \in 1..Len(its) |-> [j \in 1..Len(its[i].annotations) |-> <<i, j>>]])

CanReindex(ind_name, table, ann) ==
    /\ ann.label \in DOMAIN ind_name
    /\ ind_name[ann.label] \in DOMAIN table

\* ReindexLabels, were the label table's _indices not replaced by the table
ReindexLabelsKeepTable(cats, idx, its, table) ==
    LET category_dict_ind_name == InvertDict(idx, cats)
    IN  [ok |-> \A p \in 1..Len(Positions(its)) :
                   CanReindex(category_dict_ind_name, table,
                              its[Positions(its)[p][1]].annotations[Positions(its)[p][2]]),
         items |-> [i \in 1..Len(its) |->
                      [its[i] EXCEPT !.annotations =
                          [j \in 1..Len(its[i].annotations) |->
                              IF CanReindex(category_dict_ind_name, table, its[i].annotations[j])
                              THEN [its[i].annotations[j] EXCEPT
                                      !.label = table[category_dict_ind_name[@]]]
                              ELSE its[i].annotations[j]]]],
         indices |-> idx]

\* ReindexLabels, were the annotations given the 1-based id the COCO export writes
ReindexLabelsOneBased(cats, idx, its, table) ==
    LET category_dict_ind_name == InvertDict(idx, cats)
    IN  [ok |-> \A p \in 1..Len(Positions(its)) :
                   CanReindex(category_dict_ind_name, table,
                              its[Positions(its)[p][1]].annotations[Positions(its)[p][2]]),
         items |-> [i \in 1..Len(its) |->
                      [its[i] EXCEPT !.annotations =
                          [j \in 1..Len(its[i].annotations) |->
                              IF CanReindex(category_dict_ind_name, table, its[i].annotations[j])
                              THEN [its[i].annotations[j] EXCEPT
                                      !.label = table[category_dict_ind_name[@]] + 1]
                              ELSE its[i].annotations[j]]]],
         indices |-> table]

ReindexLabels(cats, idx, its, table) ==
    LET category_dict_ind_name == InvertDict(idx, cats)
        pos == Positions(its)
        bad == {p \in 1..Len(pos) :
                  ~CanReindex(category_dict_ind_name, table,
                              its[pos[p][1]].annotations[pos[p][2]])}
        stop == IF bad = {} THEN Len(pos) + 1
                ELSE CHOOSE p \in bad : \A q \in bad : p <= q
        Rewrite(i, anns) ==
            [j \in 1..Len(anns) |->
                IF Find(pos, <<i, j>>) < stop
                THEN [anns[j] EXCEPT
                        !.label = table[category_dict_ind_name[anns[j].label]]]
                ELSE anns[j]]
    IN  [ok |-> bad = {},
         items |-> [i \in 1..Len(its) |->
                      [its[i] EXCEPT !.annotations = Rewrite(i, its[i].annotations)]],
         indices |-> IF bad = {} THEN table ELSE idx]

(***************************************************************************)
(* CustomDataset.export_dataset, one action per step.                      *)
(***************************************************************************)
\* Raise, were the exception swallowed and export_dataset to go on with its next step
RaiseAndGoOn(step, exc) ==
    /\ pc' = (CASE step = "split" -> "split_done" [] step = "remap" -> "remap_done"
                [] step = "reindex" -> "reindex_done" [] step = "export" -> "failed")
    /\ steps' = Append(steps, step)
    /\ raised' = exc

Raise(step, exc) ==
    /\ pc' = "failed"
    /\ steps' = Append(steps, step)
    /\ raised' = exc

Finish(step, next) ==
    /\ pc' = next
    /\ steps' = Append(steps, step)
    /\ raised' = raised

Split ==
    /\ pc = "constructed"
    /\ IF IsNone(splits)
       THEN /\ pc' = "split_done"
            /\ UNCHANGED <<items, steps, raised>>
       ELSE IF ~SplitsValid(Val(splits))
       THEN /\ Raise("split", "Exception")
            /\ UNCHANGED items
       ELSE /\ \E draw \in [1..Len(items) -> SplitNames(Val(splits))] :
                 items' = [i \in 1..Len(items) |-> [items[i] EXCEPT !.subset = draw[i]]]
            /\ Finish("split", "split_done")
    /\ UNCHANGED <<stitcher, builder, cli, config, categories, indices, before, outputs, conv>>

Remap ==
    /\ pc = "split_done"
    /\ IF IsNone(mapping)
       THEN /\ pc' = "remap_done"
            /\ UNCHANGED <<dataset, steps, raised>>
       ELSE LET r == RemapLabels(categories, items, Val(mapping))
            IN  /\ categories' = r.categories
                /\ indices' = r.indices
                /\ items' = r.items
                /\ Finish("remap", "remap_done")
    /\ UNCHANGED <<stitcher, builder, cli, config, before, outputs, conv>>

Reindex ==
    /\ pc = "remap_done"
    /\ IF IsNone(labels_id_mapping)
       THEN /\ pc' = "reindex_done"
            /\ UNCHANGED <<dataset, steps, raised, before>>
       ELSE LET r == ReindexLabels(categories, indices, items, Val(labels_id_mapping))
            IN  /\ before' = Some([categories |-> categories, indices |-> indices,
                                   items |-> items])
                /\ items' = r.items
                /\ indices' = r.indices
                /\ UNCHANGED categories
                /\ IF r.ok THEN Finish("reindex", "reindex_done")
                   ELSE Raise("reindex", "KeyError")
    /\ UNCHANGED <<stitcher, builder, cli, config, outputs, conv>>

(***************************************************************************)
(* The COCO export: one JSON per subset. PatchInstancesExporter writes the *)
(* categories; the annotations are written by datumaro's exporter, with    *)
(* category_id = label + 1 and the iscrowd flag of the annotation.         *)
(***************************************************************************)
HasYolo(format) == format \in {"yolo", "yolo_seg"}
\* HasCoco, were every format that is not a YOLO format exported as COCO
HasCocoOrOther(format) == ~HasYolo(format)

HasCoco(format) == format \in {"coco"}

SaveCategoriesRaises(cats, idx) == \E k \in 1..Len(cats) : cats[k] \notin DOMAIN idx

\* SaveCategories as datumaro's unpatched exporter writes them: id = position
SaveCategoriesByPosition(cats, idx) ==
    [k \in 1..Len(cats) |-> [id |-> k, name |-> cats[k]]]

SaveCategories(cats, idx) ==
    [k \in 1..Len(cats) |-> [id |-> 1 + idx[cats[k]], name |-> cats[k]]]

Subsets(its) == {its[i].subset : i \in 1..Len(its)}

CocoImages(its, subset) ==
    LET ks == SelectSeq([i \in 1..Len(its) |-> i], LAMBDA i : its[i].subset = subset)
    IN  [n \in 1..Len(ks) |->
            [id |-> ks[n], width |-> its[ks[n]].width, height |-> its[ks[n]].height,
             file_name |-> FileName(its[ks[n]].id)]]

CocoAnnotation(image_id, ann) ==
    [image_id |-> image_id, category_id |-> ann.label + 1, iscrowd |-> ann.is_crowd,
     bbox |-> ann.bbox, segmentation |-> ann.segmentation]

CocoAnnotations(its, subset) ==
    Flatten([i \in 1..Len(its) |->
               IF its[i].subset = subset
               THEN [j \in 1..Len(its[i].annotations) |->
                        CocoAnnotation(i, its[i].annotations[j])]
               ELSE <<>>])

ExportCoco(cats, idx, its) ==
    [s \in Subsets(its) |->
        [images |-> CocoImages(its, s),
         annotations |-> CocoAnnotations(its, s),
         categories |-> SaveCategories(cats, idx)]]

\* _export_yolo: the COCO export, then COCOConverter(..., labels_id_mapping=...), a
\* keyword COCOConverter.__init__ does not take: TypeError, before any conversion
Export ==
    /\ pc = "reindex_done"
    /\ IF HasYolo(export_format) \/ HasCoco(export_format)
       THEN IF items # <<>> /\ SaveCategoriesRaises(categories, indices)
            THEN /\ Raise("export", "KeyError")
                 /\ UNCHANGED <<coco_json, other_export>>
            ELSE /\ coco_json' = ExportCoco(categories, indices, items)
                 /\ UNCHANGED other_export
                 /\ IF HasYolo(export_format)
                    THEN Raise("export", "TypeError")
                    ELSE Finish("export", "exported")
       ELSE /\ other_export' = Some(items)
            /\ UNCHANGED coco_json
            /\ Finish("export", "exported")
    /\ UNCHANGED <<stitcher, builder, cli, config, dataset, before, conv, labels, manifest>>

(***************************************************************************)
(* COCOConverter: the segment stitcher.                                    *)
(*   A ring is a sequence of points <<x, y>>; indices are 0-based as in    *)
(*   the code, sequences 1-based.                                          *)
(***************************************************************************)
SqDist(p, q) == (p[1] - q[1]) * (p[1] - q[1]) + (p[2] - q[2]) * (p[2] - q[2])

\* dis = ((arr1[:, None, :] - arr2[None, :, :]) ** 2).sum(-1), flattened as np.argmin
\* with axis=None reads it: dis[a][b] is at the 0-based position a * len(arr2) + b
Dis(arr1, arr2) ==
    [k \in 1..(Len(arr1) * Len(arr2)) |->
        SqDist(arr1[((k - 1) \div Len(arr2)) + 1], arr2[((k - 1) % Len(arr2)) + 1])]

\* ArgMin, were the last of several equal minima returned
ArgMinLast(flat) ==
    (CHOOSE k \in 1..Len(flat) : /\ \A j \in 1..Len(flat) : flat[k] <= flat[j]
                                 /\ \A j \in (k + 1)..Len(flat) : flat[k] < flat[j]) - 1

\* np.argmin: the 0-based position of the first occurrence of the minimum
ArgMin(flat) ==
    (CHOOSE k \in 1..Len(flat) : /\ \A j \in 1..Len(flat) : flat[k] <= flat[j]
                                 /\ \A j \in 1..(k - 1) : flat[k] < flat[j]) - 1

\* np.unravel_index(k, shape) for a shape of two dimensions
UnravelIndex(k, shape) == <<k \div shape[2], k % shape[2]>>

MinIndex(arr1, arr2) == UnravelIndex(ArgMin(Dis(arr1, arr2)), <<Len(arr1), Len(arr2)>>)

Reverse(s) == [k \in 1..Len(s) |-> s[Len(s) + 1 - k]]

\* np.roll(s, -k, axis=0)
Roll(s, k) == [j \in 1..Len(s) |-> s[((j - 1 + k) % Len(s)) + 1]]

\* s[from:] and s[:to] of Python, from and to >= 0
SliceFrom(s, from) == SubSeq(s, from + 1, Len(s))
SliceTo(s, to) == SubSeq(s, 1, IF to < Len(s) THEN to ELSE Len(s))

Abs(x) == IF x < 0 THEN -x ELSE x

\* idx_list[i] after the first loop of _merge_multi_segment (ring i is 1-based here)
IdxList(segments, i) ==
    (IF i > 1 THEN <<MinIndex(segments[i - 1], segments[i])[2]>> ELSE <<>>)
    \o (IF i < Len(segments) THEN <<MinIndex(segments[i], segments[i + 1])[1]>> ELSE <<>>)

\* if len(idx) == 2 and idx[0] > idx[1]: the ring and its two indices are reversed
OutOfOrder(idx) == Len(idx) = 2 /\ idx[1] > idx[2]
OrientIdx(idx) == IF OutOfOrder(idx) THEN Reverse(idx) ELSE idx
OrientRing(ring, idx) == IF OutOfOrder(idx) THEN Reverse(ring) ELSE ring

CloseRing(rolled) == rolled \o SliceTo(rolled, 1)

\* segments[i] as the pass k = 0 leaves it: oriented, rolled to its first junction
\* index, closed with its first point
ClosedRing(ring, idx) == CloseRing(Roll(OrientRing(ring, idx), OrientIdx(idx)[1]))

\* what the pass k = 0 appends for a ring: all of it for the first and the last ring,
\* else the range between its two junction indices
FirstPass(closed, idx, is_end) ==
    IF is_end THEN closed ELSE SliceTo(closed, OrientIdx(idx)[2] - OrientIdx(idx)[1] + 1)

\* SecondPass, were it to start after the point the first pass stopped at
SecondPassAfterStop(closed, idx) == SliceFrom(closed, Abs(idx[2] - idx[1]) + 1)

\* what the pass k = 1 appends for an interior ring
SecondPass(closed, idx) == SliceFrom(closed, Abs(idx[2] - idx[1]))

InteriorDescending(n) == [k \in 1..(IF n > 2 THEN n - 2 ELSE 0) |-> n - k]

StitchPasses(closed, idx_list, interior) ==
    [i \in 1..Len(closed) |-> FirstPass(closed[i], idx_list[i], i \in {1, Len(closed)})]
    \o [k \in 1..Len(interior) |-> SecondPass(closed[interior[k]], idx_list[interior[k]])]

ClosedRings(segments, idx_list) ==
    [i \in 1..Len(segments) |-> ClosedRing(segments[i], idx_list[i])]

StitchWith(segments, idx_list) ==
    StitchPasses(ClosedRings(segments, idx_list), idx_list, InteriorDescending(Len(segments)))

\* the list s returned by _merge_multi_segment, when it returns
MergeMultiSegment(rings) ==
    StitchWith(rings, [i \in 1..Len(rings) |-> IdxList(rings, i)])

\* idx[0] in the pass k = 0 raises IndexError for a ring whose idx_list entry is empty:
\* no ring is next to it, it is the only ring
MergeRaises(rings) == \E i \in 1..Len(rings) : IdxList(rings, i) = <<>>

(***************************************************************************)
(* COCOConverter: the geometry normalizer and the label lines.             *)
(***************************************************************************)
Frac(n, d) == <<n, d>>
FracLeqZero(f) == f[1] * f[2] <= 0

\* BboxProcess, were img_dimensions unpacked as (w, h)
BboxProcessSwapped(bbox, h, w) ==
    << Frac(2 * bbox[1] + bbox[3], 2 * h), Frac(2 * bbox[2] + bbox[4], 2 * w),
       Frac(bbox[3], h), Frac(bbox[4], w) >>

\* _bbox_process: <<(x + w/2) / width, (y + h/2) / height, w / width, h / height>>
BboxProcess(bbox, h, w) ==
    << Frac(2 * bbox[1] + bbox[3], 2 * w), Frac(2 * bbox[2] + bbox[4], 2 * h),
       Frac(bbox[3], w), Frac(bbox[4], h) >>

NormalizePoints(points, h, w) ==
    Flatten([k \in 1..Len(points) |-> <<Frac(points[k][1], w), Frac(points[k][2], h)>>])

\* ProcessAnnotation without the test of iscrowd
ProcessAnnotationKeepCrowd(ann, h, w, use_segments) ==
    LET box == BboxProcess(ann.bbox, h, w)
        cls == ann.category_id - 1
        points == IF Len(ann.segmentation) > 1
                  THEN Flatten(MergeMultiSegment(ann.segmentation))
                  ELSE Flatten(ann.segmentation)
    IN  IF FracLeqZero(box[3]) \/ FracLeqZero(box[4])
        THEN [box |-> None, segment |-> None]
        ELSE [box |-> Some([cls |-> cls, coords |-> box]),
              segment |-> IF use_segments
                          THEN Some([cls |-> cls, coords |-> NormalizePoints(points, h, w)])
                          ELSE None]

\* _process_annotation: <<box, segment>>, each None or Some(label line)
ProcessAnnotation(ann, h, w, use_segments) ==
    LET box == BboxProcess(ann.bbox, h, w)
        cls == ann.category_id - 1
        points == IF Len(ann.segmentation) > 1
                  THEN Flatten(MergeMultiSegment(ann.segmentation))
                  ELSE Flatten(ann.segmentation)
    IN  IF ann.iscrowd THEN [box |-> None, segment |-> None]
        ELSE IF FracLeqZero(box[3]) \/ FracLeqZero(box[4])
        THEN [box |-> None, segment |-> None]
        ELSE [box |-> Some([cls |-> cls, coords |-> box]),
              segment |-> IF use_segments
                          THEN Some([cls |-> cls, coords |-> NormalizePoints(points, h, w)])
                          ELSE None]

\* _get_label_map: {int(cat['id']) - 1: cat['name']}, a later category overwriting an
\* earlier one with the same id
RECURSIVE GetLabelMap(_)
GetLabelMap(cats) ==
    IF cats = <<>> THEN EmptyDict
    ELSE LET last == cats[Len(cats)]
         IN  ((last.id - 1) :> last.name) @@ GetLabelMap(SubSeq(cats, 1, Len(cats) - 1))

(***************************************************************************)
(* COCOConverter._make_yolo_annotation: one label file per image that has  *)
(* annotations, images in the order of their first annotation.             *)
(***************************************************************************)
RECURSIVE Dedup(_)
Dedup(s) ==
    IF s = <<>> THEN <<>>
    ELSE LET rest == Dedup(SubSeq(s, 1, Len(s) - 1))
             x == s[Len(s)]
         IN  IF Find(rest, x) = 0 THEN Append(rest, x) ELSE rest

ImageOf(data, img_id) ==
    LET hits == {k \in 1..Len(data.images) : data.images[k].id = img_id}
    IN  data.images[SetMax(hits)]

\* the annotations before the first one of anns that _process_annotation drops
UntilDropped(anns, h, w) ==
    LET dropped == {k \in 1..Len(anns) :
                      IsNone(ProcessAnnotation(anns[k], h, w, FALSE).box)}
    IN  IF dropped = {} THEN anns
        ELSE SubSeq(anns, 1, (CHOOSE k \in dropped : \A d \in dropped : k <= d) - 1)

LinesOf(anns, h, w, use_segments) ==
    [k \in 1..Len(anns) |->
        IF use_segments THEN Val(ProcessAnnotation(anns[k], h, w, use_segments).segment)
        ELSE Val(ProcessAnnotation(anns[k], h, w, use_segments).box)]

\* LabelLines, were a dropped annotation to end the loop over the image's annotations
LabelLinesBreak(data, img_id, use_segments) ==
    LinesOf(UntilDropped(SelectSeq(data.annotations, LAMBDA a : a.image_id = img_id),
                         ImageOf(data, img_id).height, ImageOf(data, img_id).width),
            ImageOf(data, img_id).height, ImageOf(data, img_id).width, use_segments)

LabelLines(data, img_id, use_segments) ==
    LET img == ImageOf(data, img_id)
        anns == SelectSeq(data.annotations, LAMBDA a : a.image_id = img_id)
        out == [k \in 1..Len(anns) |->
                  ProcessAnnotation(anns[k], img.height, img.width, use_segments)]
        bboxes == SelectSeq([k \in 1..Len(out) |-> out[k].box], LAMBDA b : ~IsNone(b))
        segments == SelectSeq([k \in 1..Len(out) |-> out[k].segment], LAMBDA b : ~IsNone(b))
        chosen == IF use_segments THEN segments ELSE bboxes
    IN  [k \in 1..Len(chosen) |-> Val(chosen[k])]

\* img_name = file_name.split('.')[0], under the directory of the subset
LabelPath(subset_name, file_name) == <<subset_name, Unspell(SplitStr(file_name, ".")[1])>>

RECURSIVE WriteLabelFiles(_, _, _, _, _)
WriteLabelFiles(files, subset_name, data, img_ids, use_segments) ==
    IF img_ids = <<>> THEN files
    ELSE LET img_id == Head(img_ids)
             path == LabelPath(subset_name, ImageOf(data, img_id).file_name)
             written == (path :> LabelLines(data, img_id, use_segments)) @@ files
         IN  WriteLabelFiles(written, subset_name, data, Tail(img_ids), use_segments)

\* the keys of img_to_anns, in the order of insertion
ImageIds(data) == Dedup([k \in 1..Len(data.annotations) |-> data.annotations[k].image_id])

MakeYoloAnnotation(files, subset_name, data, use_segments) ==
    WriteLabelFiles(files, subset_name, data, ImageIds(data), use_segments)

NoConverter == [pc |-> "none", use_segments |-> FALSE, convert_format |-> "",
                todo |-> {}, data |-> None, raised |-> "none"]

InitCommon ==
    /\ categories = CategoryNames
    /\ indices = NameIndex(CategoryNames)
    /\ pc = "constructed"
    /\ steps = <<>>
    /\ raised = "none"
    /\ before = None
    /\ coco_json = EmptyDict
    /\ other_export = None
    /\ conv = NoConverter
    /\ labels = EmptyDict
    /\ manifest = None

\* no direct call of the stitcher
NoStitch ==
    /\ segmentation = <<>>
    /\ nearest = None
    /\ merged = None

\* build_dataset not called: the CustomDataset is driven directly
NotBuilding == [pc |-> "idle", raised |-> "none", constructed |-> FALSE, returned |-> None]
NoBuild ==
    /\ raw_data_exists = TRUE
    /\ save_path = None
    /\ build = NotBuilding

\* main not run
NoMain ==
    /\ options = [only_build_dataset |-> TRUE, save_path |-> "raw", format |-> "coco"]
    /\ raw_entries = 0
    /\ dirs = {}
    /\ runs = <<>>

\* every configuration, over datasets of one kind of annotation
InitConfigs ==
    /\ splits \in SplitsOptions
    /\ mapping \in MappingOptions
    /\ labels_id_mapping \in TableOptions
    /\ export_format \in FormatOptions
    /\ items \in Datasets({Annotation(2, PlainShape)})

\* every remap and reindex table, over datasets whose annotations differ in category
InitLabels ==
    /\ splits = None
    /\ mapping \in MappingOptions
    /\ labels_id_mapping \in TableOptions
    /\ export_format = "coco"
    /\ items \in Datasets({Annotation(l, PlainShape) : l \in 0..(Len(CategoryNames) - 1)})

\* every shape of annotation, in a pipeline that only exports
InitShapes ==
    /\ splits = None
    /\ mapping = None
    /\ labels_id_mapping = None
    /\ export_format = "coco"
    /\ items \in Datasets({Annotation(0, s) : s \in Shapes})

Init == InitCommon /\ NoStitch /\ NoBuild /\ NoMain /\ (InitConfigs \/ InitLabels \/ InitShapes)

(***************************************************************************)
(* COCOConverter(json_dir = <path>/annotations, save_dir = <path>/labels,  *)
(* use_segments, convert_format).convert(), run on the directory the COCO  *)
(* export wrote. _to_yolo converts one JSON after the other, in the order  *)
(* os.listdir gives, and writes the manifest last.                         *)
(***************************************************************************)
ConvertFormats == {"yolo", "coco"}

AnnotationsDirExists ==
    /\ Len(steps) > 0
    /\ steps[Len(steps)] = "export"
    /\ HasYolo(export_format) \/ HasCoco(export_format)

\* the directory of a subset's label files:
\* subset_name = os.path.basename(json_file).split('_')[-1].split('.')[0]
SubsetName(subset) ==
    Unspell(SplitStr(SplitStr(JsonName(subset), "_")[Len(SplitStr(JsonName(subset), "_"))],
                     ".")[1])

ManifestKeys(its) ==
    {"path", "train", "val", "names"} \cup (IF "test" \in Subsets(its) THEN {"test"} ELSE {})

Convert ==
    /\ pc \in {"exported", "failed"}
    /\ AnnotationsDirExists
    /\ conv.pc = "none"
    /\ \E use_segments \in BOOLEAN, convert_format \in ConvertFormats :
          conv' = IF convert_format = "yolo"
                  THEN [pc |-> "subsets", use_segments |-> use_segments,
                        convert_format |-> convert_format, todo |-> DOMAIN coco_json,
                        data |-> None, raised |-> "none"]
                  ELSE [pc |-> "failed", use_segments |-> use_segments,
                        convert_format |-> convert_format, todo |-> {},
                        data |-> None, raised |-> "ValueError"]
    /\ UNCHANGED <<stitcher, builder, cli, config, dataset, pc, steps, raised, before, outputs>>

ConvertSubset ==
    /\ conv.pc = "subsets"
    /\ \E subset \in conv.todo :
          /\ labels' = MakeYoloAnnotation(labels, SubsetName(subset), coco_json[subset],
                                          conv.use_segments)
          /\ conv' = [conv EXCEPT !.todo = @ \ {subset}, !.data = Some(subset)]
    /\ UNCHANGED <<stitcher, builder, cli, config, dataset, pc, steps, raised, before, coco_json, other_export,
                   manifest>>

\* The label files as a failure of reading or writing inside the conversion of a
\* subset leaves them: the files of the first n images are written; torn: the file
\* of the next image was opened for writing, which empties it, and got no line.
FailedWrite(files, subset_name, data, n, torn, use_segments) ==
    (IF torn
     THEN LabelPath(subset_name, ImageOf(data, ImageIds(data)[n + 1]).file_name) :> <<>>
     ELSE EmptyDict)
    @@ WriteLabelFiles(files, subset_name, data, SubSeq(ImageIds(data), 1, n), use_segments)

\* json.load, open or file.write raises while a subset is converted: nothing catches
\* it, _to_yolo ends there
ConvertSubsetFails ==
    /\ conv.pc = "subsets"
    /\ \E subset \in conv.todo, torn \in BOOLEAN :
          \E n \in 0..Len(ImageIds(coco_json[subset])) :
              /\ n < Len(ImageIds(coco_json[subset])) \/ (n = 0 /\ ~torn)
              /\ labels' = FailedWrite(labels, SubsetName(subset), coco_json[subset],
                                       n, torn, conv.use_segments)
              /\ conv' = [conv EXCEPT !.pc = "failed", !.raised = "OSError"]
    /\ UNCHANGED <<stitcher, builder, cli, config, dataset, pc, steps, raised, before, coco_json,
                   other_export, manifest>>

\* label_map = self._get_label_map(data['categories']): data is the last JSON loaded,
\* and unbound when there was none
ConvertManifest ==
    /\ conv.pc = "subsets"
    /\ conv.todo = {}
    /\ IF IsNone(conv.data)
       THEN /\ conv' = [conv EXCEPT !.pc = "failed", !.raised = "UnboundLocalError"]
            /\ UNCHANGED manifest
       ELSE /\ manifest' = Some([keys |-> ManifestKeys(items),
                                 names |-> GetLabelMap(coco_json[Val(conv.data)].categories)])
            /\ conv' = [conv EXCEPT !.pc = "done"]
    /\ UNCHANGED <<stitcher, builder, cli, config, dataset, pc, steps, raised, before, coco_json, other_export,
                   labels>>

Next ==
    \/ Split \/ Remap \/ Reindex \/ Export
    \/ Convert \/ ConvertSubset \/ ConvertSubsetFails \/ ConvertManifest

Spec == Init /\ [][Next]_vars

(***************************************************************************)
(* The same pipeline and converter over datasets whose item and subset     *)
(* names hold the separators the converter splits names at: two annotated  *)
(* items, told apart by their category; datumaro keeps (id, subset) unique.*)
(***************************************************************************)
NamedIds == {"a", "a.1", "a.2"}
NamedSubsets == {"train", "my_train", "train.v2", "test"}

NamedItem(id, subset, label) ==
    [id |-> id, subset |-> subset, width |-> ImageSize.width, height |-> ImageSize.height,
     annotations |-> <<Annotation(label, PlainShape)>>]

InitNames ==
    /\ InitCommon
    /\ NoStitch
    /\ NoBuild
    /\ NoMain
    /\ splits = None
    /\ mapping = None
    /\ labels_id_mapping = None
    /\ export_format = "coco"
    /\ \E id1 \in NamedIds, id2 \in NamedIds, s1 \in NamedSubsets, s2 \in NamedSubsets :
          /\ <<id1, s1>> # <<id2, s2>>
          /\ items = <<NamedItem(id1, s1, 0), NamedItem(id2, s2, 1)>>

NextNames ==
    \/ Split \/ Remap \/ Reindex \/ Export
    \/ Convert \/ ConvertSubset \/ ConvertSubsetFails \/ ConvertManifest

SpecNames == InitNames /\ [][NextNames]_vars

(***************************************************************************)
(* CVATDataFlow.build_dataset(save_path): no CustomDataset exists before   *)
(* the call; the one it constructs reads the merged dataset from           *)
(* raw_data_path.                                                          *)
(***************************************************************************)
InitBuild ==
    /\ NoStitch
    /\ splits \in SplitsOptions
    /\ mapping \in MappingOptions
    /\ labels_id_mapping \in TableOptions
    /\ export_format \in FormatOptions
    /\ categories = <<>>
    /\ indices = EmptyDict
    /\ items = <<>>
    /\ pc = "unbuilt"
    /\ steps = <<>>
    /\ raised = "none"
    /\ before = None
    /\ coco_json = EmptyDict
    /\ other_export = None
    /\ conv = NoConverter
    /\ labels = EmptyDict
    /\ manifest = None
    /\ raw_data_exists \in BOOLEAN
    /\ save_path \in {None, Some("out")}
    /\ build = NotBuilding
    /\ NoMain

\* dataset.export_dataset(save_path=save_path): export_dataset(self) takes no such
\* keyword, so the call raises TypeError before the first statement of export_dataset
BuildDataset ==
    /\ build.pc = "idle"
    /\ pc = "unbuilt"
    /\ IF ~raw_data_exists
       THEN /\ build' = [build EXCEPT !.pc = "raised", !.raised = "FileNotFoundError"]
            /\ UNCHANGED <<dataset, pc>>
       ELSE /\ categories' = CategoryNames
            /\ indices' = NameIndex(CategoryNames)
            /\ items' \in Datasets({Annotation(0, PlainShape)})
            /\ pc' = "constructed"
            /\ build' = [build EXCEPT !.pc = "raised", !.raised = "TypeError",
                                      !.constructed = TRUE]
    /\ UNCHANGED <<stitcher, cli, config, steps, raised, before, outputs, conv,
                   raw_data_exists, save_path>>

NextBuild == BuildDataset

SpecBuild == InitBuild /\ [][NextBuild]_vars

(***************************************************************************)
(* main(): Options() reads config.ini, a CVATDataFlow is constructed from  *)
(* the options, then the download step and the build step. The file system *)
(* is what the runs share: the raw data directory and the directories      *)
(* <path>_<format>.                                                        *)
(***************************************************************************)
\* the attributes Options.__init__ sets
OptionsAttributes ==
    {"url", "login", "password", "tasks_ids", "projects_ids", "format", "save_path",
     "split", "only_build_dataset", "labels_mapping", "debug"}

\* the attributes main reads to construct the CVATDataFlow, in the order of the call
ConstructorReads ==
    <<"url", "login", "password", "raw_data_path", "projects_ids", "tasks_ids", "format",
      "split", "labels_mapping", "debug", "labels_id_mapping">>

\* the first attribute main reads that Options does not have, or None
MissingAttribute(reads) ==
    LET missing == {k \in 1..Len(reads) : reads[k] \notin OptionsAttributes}
    IN  IF missing = {} THEN None
        ELSE Some(reads[CHOOSE k \in missing : \A m \in missing : k <= m])

RawPath == "raw"
Paths == {RawPath, "out"}

\* the directory main looks for: f"{options.save_path}_{options.format}"
BuiltDir(opts) == <<opts.save_path, opts.format>>

NotRun == [raised |-> "none", downloaded |-> FALSE, built |-> FALSE, reported |-> {}]

\* what build_dataset(save_path=options.save_path) raises
BuildRaises(exists) == IF ~exists THEN "FileNotFoundError" ELSE "TypeError"

\* one run of main on the file system <<exists, entries, ds>>; got is the number of
\* entries a download leaves in the raw data directory
MainRun(opts, exists, entries, ds, got) ==
    LET start == NotRun @@ [dir_existed |-> BuiltDir(opts) \in ds,
                            raw_was_empty |-> exists /\ entries = 0,
                            raw_entries |-> entries]
        listed == ~opts.only_build_dataset
        download == listed /\ exists /\ entries = 0
        after == IF download
                 THEN [start EXCEPT !.downloaded = TRUE, !.raw_entries = got]
                 ELSE IF listed /\ exists
                 THEN [start EXCEPT !.reported = {"Data already downloaded"}]
                 ELSE start
    IN  IF ~IsNone(MissingAttribute(ConstructorReads))
        THEN [start EXCEPT !.raised = "AttributeError"]
        ELSE IF listed /\ ~exists
        THEN [start EXCEPT !.raised = "FileNotFoundError"]
        ELSE IF BuiltDir(opts) \notin ds
        THEN [after EXCEPT !.raised = BuildRaises(exists)]
        ELSE [after EXCEPT !.reported = @ \cup {"Dataset already built"}]

InitMain ==
    /\ NoStitch
    /\ splits = None
    /\ mapping = None
    /\ labels_id_mapping = None
    /\ categories = <<>>
    /\ indices = EmptyDict
    /\ items = <<>>
    /\ pc = "unbuilt"
    /\ steps = <<>>
    /\ raised = "none"
    /\ before = None
    /\ coco_json = EmptyDict
    /\ other_export = None
    /\ conv = NoConverter
    /\ labels = EmptyDict
    /\ manifest = None
    /\ raw_data_exists \in BOOLEAN
    /\ save_path = None
    /\ build = NotBuilding
    /\ options \in [only_build_dataset : BOOLEAN, save_path : Paths, format : FormatOptions]
    /\ raw_entries \in 0..MaxEntries
    /\ export_format = options.format
    /\ dirs \in SUBSET {<<p, options.format>> : p \in Paths}
    /\ runs = <<>>

Main ==
    /\ Len(runs) < MaxRuns
    /\ \E got \in 1..MaxEntries :
          LET run == MainRun(options, raw_data_exists, raw_entries, dirs, got)
          IN  /\ runs' = Append(runs, run)
              /\ raw_entries' = run.raw_entries
    /\ UNCHANGED <<config, dataset, pc, steps, raised, before, outputs, conv,
                   stitcher, builder, options, dirs>>

NextMain == Main

SpecMain == InitMain /\ [][NextMain]_vars

(***************************************************************************)
(* Direct calls of the stitcher: _min_index on the first two rings of a    *)
(* segmentation and _merge_multi_segment on all of it.                     *)
(***************************************************************************)
RingPool ==
    { << <<0, 0>>, <<2, 0>>, <<2, 2>>, <<0, 2>> >>,
      << <<3, 0>>, <<5, 0>>, <<5, 2>>, <<3, 2>> >>,
      << <<3, 3>>, <<5, 3>>, <<4, 5>> >>,
      << <<0, 3>>, <<2, 3>>, <<1, 5>> >>,
      << <<6, 2>>, <<7, 4>>, <<6, 6>> >> }

\* the segmentations: lists of rings of the pool, no ring twice
Segmentations ==
    {s \in SeqsUpTo(RingPool, MaxRings) :
        \A i, j \in 1..Len(s) : s[i] = s[j] => i = j}

pipeline == <<config, dataset, pc, steps, raised, before, outputs, conv>>

InitStitch ==
    /\ InitCommon
    /\ NoBuild
    /\ NoMain
    /\ splits = None
    /\ mapping = None
    /\ labels_id_mapping = None
    /\ export_format = "coco"
    /\ items = <<>>
    /\ segmentation \in Segmentations
    /\ nearest = None
    /\ merged = None

CallMinIndex ==
    /\ Len(segmentation) >= 2
    /\ IsNone(nearest)
    /\ nearest' = Some(MinIndex(segmentation[1], segmentation[2]))
    /\ UNCHANGED <<pipeline, builder, cli, segmentation, merged>>

CallMergeMultiSegment ==
    /\ IsNone(merged)
    /\ merged' = Some(IF MergeRaises(segmentation)
                      THEN [raised |-> "IndexError", s |-> <<>>]
                      ELSE [raised |-> "none", s |-> MergeMultiSegment(segmentation)])
    /\ UNCHANGED <<pipeline, builder, cli, segmentation, nearest>>

NextStitch == CallMinIndex \/ CallMergeMultiSegment

SpecStitch == InitStitch /\ [][NextStitch]_vars

(***************************************************************************)
(* Properties.                                                             *)
(***************************************************************************)
LastStep == IF steps = <<>> THEN "none" ELSE steps[Len(steps)]
StepsRun == {steps[k] : k \in 1..Len(steps)}
StepRank(step) == CASE step = "split" -> 1 [] step = "remap" -> 2
                    [] step = "reindex" -> 3 [] step = "export" -> 4

Configured(step) ==
    CASE step = "split" -> ~IsNone(splits)
      [] step = "remap" -> ~IsNone(mapping)
      [] step = "reindex" -> ~IsNone(labels_id_mapping)
      [] step = "export" -> TRUE

ReindexCalled == ~IsNone(before)
ReindexRaised == ReindexCalled /\ pc = "failed" /\ LastStep = "reindex"
ReindexReturned == ReindexCalled /\ ~ReindexRaised

NamesOf(cats) == {cats[k] : k \in 1..Len(cats)}
AllAnnotations(its) == Flatten([i \in 1..Len(its) |-> its[i].annotations])
AllLabels(its) == {AllAnnotations(its)[k].label : k \in 1..Len(AllAnnotations(its))}

\* the name the label table idx gives to the index i
NameOfIndex(idx, i) == CHOOSE n \in DOMAIN idx : idx[n] = i

\* C1: export_dataset runs split, remap, reindex and export in this order, an
\* optional step only when it is configured and export only after every configured
\* step; once a step has raised, no step runs and nothing more is exported.
C1_StepOrder ==
    [][ /\ \/ steps' = steps
           \/ \E step \in {"split", "remap", "reindex", "export"} :
                 /\ steps' = Append(steps, step)
                 /\ Configured(step)
                 /\ \A k \in 1..Len(steps) : StepRank(steps[k]) < StepRank(step)
                 /\ \A earlier \in {"split", "remap", "reindex"} :
                       (StepRank(earlier) < StepRank(step) /\ Configured(earlier))
                          => earlier \in StepsRun
        /\ raised # "none" =>
              /\ steps' = steps
              /\ raised' = raised
              /\ coco_json' = coco_json
              /\ other_export' = other_export
              /\ dataset' = dataset ]_vars

C1_Witness ==
    /\ steps = <<"split", "remap", "reindex">>
    /\ raised = "KeyError"
    /\ pc = "failed"
    /\ coco_json = EmptyDict
    /\ IsNone(other_export)

\* C2: a reindex (of a dataset that holds annotations) whose table lacks a name of the
\* dataset's label table raises, whether or not an annotation uses that category.
C2_MissingNameRaises ==
    (/\ ReindexCalled
     /\ AllAnnotations(Val(before).items) # <<>>
     /\ ~(NamesOf(Val(before).categories) \subseteq DOMAIN Val(labels_id_mapping)))
        => ReindexRaised

\* C3: when the reindex raises, every annotation and the label table are as they were
\* before the call.
C3_NoPartialReindex ==
    ReindexRaised =>
        /\ items = Val(before).items
        /\ indices = Val(before).indices
        /\ categories = Val(before).categories

\* C4: a reindex that returns has given every annotation the id the table holds for
\* the name its old index had, has left everything else of every item as it was, and
\* has made the table the label table's name -> index mapping.
C4_ReindexRewritesOnlyIds ==
    ReindexReturned =>
        /\ indices = Val(labels_id_mapping)
        /\ categories = Val(before).categories
        /\ Len(items) = Len(Val(before).items)
        /\ \A i \in 1..Len(items) :
              LET old == Val(before).items[i]
              IN  /\ Len(items[i].annotations) = Len(old.annotations)
                  /\ [items[i] EXCEPT !.annotations = old.annotations] = old
                  /\ \A j \in 1..Len(old.annotations) :
                        /\ [items[i].annotations[j] EXCEPT !.label = old.annotations[j].label]
                              = old.annotations[j]
                        /\ items[i].annotations[j].label =
                              Val(labels_id_mapping)[
                                  NameOfIndex(Val(before).indices, old.annotations[j].label)]

C4_Witness ==
    /\ ReindexReturned
    /\ Len(items) = 2
    /\ \E i \in 1..Len(items) : Len(items[i].annotations) = 2
    /\ \E i \in 1..Len(items), j \in 1..2 :
          /\ j <= Len(items[i].annotations)
          /\ items[i].annotations[j].label # Val(before).items[i].annotations[j].label
    /\ Cardinality(AllLabels(Val(before).items)) > 1

\* C5: a reindex with the identity table (every name mapped to its current index)
\* returns and leaves the dataset as it was, and so does one more reindex with it.
C5_IdentityReindex ==
    (ReindexCalled /\ Val(labels_id_mapping) = Val(before).indices) =>
        /\ ReindexReturned
        /\ <<categories, indices, items>>
              = <<Val(before).categories, Val(before).indices, Val(before).items>>
        /\ LET again == ReindexLabels(categories, indices, items, Val(labels_id_mapping))
           IN  /\ again.ok
               /\ again.items = Val(before).items
               /\ again.indices = Val(before).indices

C5_Witness ==
    /\ ReindexReturned
    /\ Val(labels_id_mapping) = Val(before).indices
    /\ Cardinality(AllLabels(items)) = 3

RemapTargets == {Val(mapping)[k][2] : k \in 1..Len(Val(mapping))}
RemapSources == {Val(mapping)[k][1] : k \in 1..Len(Val(mapping))}

\* C6 as stated: after a remap, a reindex whose table covers the remap's target names
\* does not raise.
C6_TargetsCoveredNeverRaises ==
    ("remap" \in StepsRun /\ ReindexCalled /\ RemapTargets \subseteq DOMAIN Val(labels_id_mapping))
        => ~ReindexRaised

\* C6 as amended: after a remap, a reindex whose table covers every name of the label
\* table the remap left (the target names and the names of the categories the remap
\* table does not mention, which are kept) does not raise.
C6_AllNamesCoveredNeverRaises ==
    ("remap" \in StepsRun /\ ReindexCalled
       /\ NamesOf(Val(before).categories) \subseteq DOMAIN Val(labels_id_mapping))
        => ~ReindexRaised

\* a remap and a reindex that returned, over a dataset holding an annotation of a
\* category that is no key of the remap table
C6_Witness ==
    /\ "remap" \in StepsRun
    /\ ReindexReturned
    /\ NamesOf(Val(before).categories) \subseteq DOMAIN Val(labels_id_mapping)
    /\ \E l \in AllLabels(Val(before).items) :
          NameOfIndex(Val(before).indices, l) \notin (RemapSources \cup RemapTargets)

(***************************************************************************)
(* The label file of an item and the annotations its lines come from.      *)
(***************************************************************************)
FileOf(item) == LabelPath(SubsetName(item.subset), FileName(item.id))

\* the converter has processed the JSON of the item's subset
Converted(item) ==
    /\ conv.pc \in {"subsets", "done"}
    /\ item.subset \in DOMAIN coco_json
    /\ item.subset \notin conv.todo

Degenerate(ann) == ann.bbox[3] <= 0 \/ ann.bbox[4] <= 0
Retained(ann) == ~ann.is_crowd /\ ~Degenerate(ann)
RetainedOf(item) == SelectSeq(item.annotations, Retained)

Inside(ann, item) ==
    /\ ann.bbox[1] >= 0 /\ ann.bbox[1] + ann.bbox[3] <= item.width
    /\ ann.bbox[2] >= 0 /\ ann.bbox[2] + ann.bbox[4] <= item.height

InUnit(f) == 0 <= f[1] /\ f[1] <= f[2]

\* the line is the box line of the annotation: <<(x + w/2)/W, (y + h/2)/H, w/W, h/H>>
IsBoxLineOf(line, ann, item) ==
    line.coords = << <<2 * ann.bbox[1] + ann.bbox[3], 2 * item.width>>,
                     <<2 * ann.bbox[2] + ann.bbox[4], 2 * item.height>>,
                     <<ann.bbox[3], item.width>>, <<ann.bbox[4], item.height>> >>

\* the line is the polygon line of an annotation of one ring: x/W, y/H of every point
IsRingLineOf(line, ann, item) ==
    /\ Len(ann.segmentation) = 1
    /\ Len(line.coords) = 2 * Len(ann.segmentation[1])
    /\ \A k \in 1..Len(ann.segmentation[1]) :
          /\ line.coords[2 * k - 1] = <<ann.segmentation[1][k][1], item.width>>
          /\ line.coords[2 * k] = <<ann.segmentation[1][k][2], item.height>>

DistinctIndices ==
    \A m, n \in NamesOf(categories) \cap DOMAIN indices :
        indices[m] = indices[n] => m = n

\* what C7 says of the COCO export: every category is listed with id = index + 1, and
\* every annotation carries the id of a listed category, its label + 1
CocoIdsAreIndexPlusOne ==
    \A s \in DOMAIN coco_json :
        /\ Len(coco_json[s].categories) = Len(categories)
        /\ \A k \in 1..Len(categories) :
              /\ coco_json[s].categories[k].name = categories[k]
              /\ coco_json[s].categories[k].id = indices[categories[k]] + 1
        /\ \A k \in 1..Len(coco_json[s].annotations) :
              \E c \in 1..Len(categories) :
                  coco_json[s].categories[c].id = coco_json[s].annotations[k].category_id

\* what C7 says of the YOLO output: the lines of a label file carry the indices of the
\* categories of the annotations they come from, and the manifest names every
\* category under its index
YoloIdsAreIndex ==
    /\ \A i \in 1..Len(items) :
          (Converted(items[i]) /\ items[i].annotations # <<>>) =>
              LET file == FileOf(items[i])
                  kept == RetainedOf(items[i])
              IN  /\ file \in DOMAIN labels
                  /\ Len(labels[file]) = Len(kept)
                  /\ \A k \in 1..Len(kept) :
                        /\ labels[file][k].cls = kept[k].label
                        /\ ~IsNone(manifest) =>
                              /\ labels[file][k].cls \in DOMAIN Val(manifest).names
                              /\ indices[Val(manifest).names[labels[file][k].cls]]
                                    = kept[k].label
    /\ ~IsNone(manifest) =>
          \A n \in NamesOf(categories) :
              /\ indices[n] \in DOMAIN Val(manifest).names
              /\ Val(manifest).names[indices[n]] = n

CrowdAbsentFromCoco ==
    \A s \in DOMAIN coco_json : \A k \in 1..Len(coco_json[s].annotations) :
        ~coco_json[s].annotations[k].iscrowd

\* no line of an item's label file is the line of one of its crowd annotations (told
\* by its geometry, where no other annotation of the item has the same)
CrowdAbsentFromYolo ==
    \A i \in 1..Len(items) : \A j \in 1..Len(items[i].annotations) :
        (/\ items[i].annotations[j].is_crowd
         /\ FileOf(items[i]) \in DOMAIN labels
         /\ \A o \in 1..Len(items[i].annotations) :
               ~items[i].annotations[o].is_crowd =>
                   /\ items[i].annotations[o].bbox # items[i].annotations[j].bbox
                   /\ items[i].annotations[o].segmentation
                         # items[i].annotations[j].segmentation)
        => LET lines == labels[FileOf(items[i])]
           IN  /\ Len(lines) <= Len(items[i].annotations) - 1
               /\ \A k \in 1..Len(lines) :
                     /\ ~IsBoxLineOf(lines[k], items[i].annotations[j], items[i])
                     /\ ~IsRingLineOf(lines[k], items[i].annotations[j], items[i])

CrowdKeptInCoco ==
    \A i \in 1..Len(items) : \A j \in 1..Len(items[i].annotations) :
        (items[i].annotations[j].is_crowd /\ items[i].subset \in DOMAIN coco_json) =>
            \E k \in 1..Len(coco_json[items[i].subset].annotations) :
                LET a == coco_json[items[i].subset].annotations[k]
                IN  a.iscrowd /\ a.image_id = i /\ a.bbox = items[i].annotations[j].bbox

\* C8 as stated: an annotation with iscrowd = true is in no output, COCO or YOLO.
C8_CrowdInNoOutput == CrowdAbsentFromCoco /\ CrowdAbsentFromYolo

\* C8 as amended: an annotation with iscrowd = true is in no YOLO label file, in box
\* mode and in segmentation mode; the COCO export writes it, with iscrowd set.
C8_CrowdInNoLabelFile == CrowdAbsentFromYolo /\ CrowdKeptInCoco

C8_Witness ==
    /\ conv.pc = "done"
    /\ conv.use_segments
    /\ \E i \in 1..Len(items) :
          /\ Len(items[i].annotations) = 2
          /\ items[i].annotations[1].is_crowd
          /\ Len(items[i].annotations[1].segmentation) = 1
          /\ Len(items[i].annotations[2].segmentation) = 1
          /\ ~items[i].annotations[2].is_crowd
          /\ FileOf(items[i]) \in DOMAIN labels
          /\ Len(labels[FileOf(items[i])]) = 1
          /\ IsRingLineOf(labels[FileOf(items[i])][1], items[i].annotations[2], items[i])

\* C9: an annotation of normalized width or height <= 0 gives no line and ends
\* nothing: the label file of every image that has annotations holds the lines of
\* its retained annotations (not crowd, width and height > 0), all of them and in
\* their order, and the conversion goes on to the images after it; the conversion
\* ends with an exception only for a convert_format that is not "yolo", for a
\* directory without JSON, or when reading or writing a file fails.
C9_DegenerateSkipped ==
    /\ \A i \in 1..Len(items) :
          (Converted(items[i]) /\ items[i].annotations # <<>>) =>
              LET file == FileOf(items[i])
                  kept == RetainedOf(items[i])
              IN  /\ file \in DOMAIN labels
                  /\ Len(labels[file]) = Len(kept)
                  /\ \A k \in 1..Len(kept) :
                        /\ labels[file][k].cls = kept[k].label
                        /\ ~conv.use_segments =>
                              IsBoxLineOf(labels[file][k], kept[k], items[i])
    /\ conv.raised \in {"none", "ValueError", "UnboundLocalError", "OSError"}
    /\ conv.raised = "ValueError" => conv.convert_format # "yolo"
    /\ conv.raised = "UnboundLocalError" => DOMAIN coco_json = {}

C9_Witness ==
    /\ conv.pc = "done"
    /\ ~conv.use_segments
    /\ Len(items) = 2
    /\ Len(items[1].annotations) = 2
    /\ Degenerate(items[1].annotations[1])
    /\ Retained(items[1].annotations[2])
    /\ Len(items[2].annotations) = 1
    /\ Len(labels[FileOf(items[1])]) = 1
    /\ Len(labels[FileOf(items[2])]) = 1

BoxLinesInUnit(only_inside) ==
    \A i \in 1..Len(items) :
        (Converted(items[i]) /\ items[i].annotations # <<>> /\ ~conv.use_segments) =>
            LET lines == labels[FileOf(items[i])]
                kept == RetainedOf(items[i])
            IN  \A k \in 1..Len(lines) :
                    (k <= Len(kept) /\ (only_inside => Inside(kept[k], items[i])))
                    => \A c \in 1..4 : InUnit(lines[k].coords[c])

\* C10 as stated: the normalized box of every box with w > 0, h > 0 has its four
\* components in [0, 1], also when the box reaches over the image's border.
C10_NormalizedInUnit == BoxLinesInUnit(FALSE)

\* C10 as amended: the normalized box of every box with w > 0, h > 0 that lies within
\* the image (x >= 0, y >= 0, x + w <= width, y + h <= height) has its four
\* components in [0, 1].
C10_InsideNormalizedInUnit == BoxLinesInUnit(TRUE)

C10_Witness ==
    /\ conv.pc = "done"
    /\ ~conv.use_segments
    /\ \E i \in 1..Len(items) :
          /\ Len(items[i].annotations) = 1
          /\ items[i].annotations[1].bbox = <<2, 0, 2, 2>>
          /\ labels[FileOf(items[i])][1].coords = << <<6, 8>>, <<2, 4>>, <<2, 4>>, <<2, 2>> >>

(***************************************************************************)
(* Configuration errors.                                                   *)
(***************************************************************************)
\* the weights of the split table (tenths) do not sum to 1
InvalidSplits == ~IsNone(splits) /\ SumSeq(SplitWeights(Val(splits))) # 10
NothingWritten ==
    /\ coco_json = EmptyDict
    /\ other_export = None
    /\ labels = EmptyDict
    /\ manifest = None
\* the name of the format holds neither "coco" nor "yolo"
OtherFormat == export_format \notin {"coco", "yolo", "yolo_seg"}

C14_OtherFormatRejected == OtherFormat => (steps = <<>> /\ NothingWritten)

\* C14 (amended): export_dataset does not reject such a format: the steps run and the
\* dataset is handed to dataset.export under that format name, and no COCO JSON is
\* written. What is rejected is a convert_format of COCOConverter other than "yolo":
\* convert raises ValueError and writes no label file and no manifest.
C14_OtherFormatDelegated ==
    /\ (OtherFormat /\ LastStep = "export" /\ raised = "none") =>
          (other_export = Some(items) /\ coco_json = EmptyDict)
    /\ (conv.pc # "none" /\ conv.convert_format # "yolo") =>
          (conv.pc = "failed" /\ conv.raised = "ValueError"
           /\ labels = EmptyDict /\ manifest = None)

C14_Witness ==
    /\ OtherFormat
    /\ "split" \in StepsRun
    /\ items # <<>>
    /\ other_export = Some(items)

(***************************************************************************)
(* The manifest.                                                           *)
(***************************************************************************)
ConversionEnded ==
    /\ conv.convert_format = "yolo"
    /\ conv.pc \in {"done", "failed"}
    /\ conv.raised # "OSError"

\* C15: a YOLO conversion that meets no input/output failure writes the manifest,
\* after the label files of every subset, with the keys path, train, val and names,
\* and with the key test exactly when images/test exists; also when there is no
\* per-subset COCO JSON at all.
C15_ManifestWritten ==
    ConversionEnded =>
        /\ conv.todo = {}
        /\ ~IsNone(manifest)
        /\ {"path", "train", "val", "names"} \subseteq Val(manifest).keys
        /\ ("test" \in Val(manifest).keys) <=> ("test" \in Subsets(items))

(***************************************************************************)
(* The label files of a conversion.                                        *)
(***************************************************************************)
Annotated == {i \in 1..Len(items) : items[i].annotations # <<>>}

\* C16: when reading or writing fails while a subset is converted, every label file
\* written for the subsets converted before is still there with the lines it had.
C16_CompletedSubsetsKept ==
    [][(conv.pc = "subsets" /\ conv'.raised = "OSError") =>
          \A f \in DOMAIN labels : f \in DOMAIN labels' /\ labels'[f] = labels[f]]_vars

\* C17: in a finished conversion no two annotated images share a label file: their
\* label paths differ, and there are as many label files as annotated images.
C17_DisjointLabelFiles ==
    conv.pc = "done" =>
        /\ \A i, j \in Annotated : FileOf(items[i]) = FileOf(items[j]) => i = j
        /\ Cardinality(DOMAIN labels) = Cardinality(Annotated)

\* the annotations of an item that give a line, as C21 tells them: not crowd, width and
\* height > 0 and, in segmentation mode, with a segmentation
HasLine(ann) == Retained(ann) /\ (conv.use_segments => ann.segmentation # <<>>)
WithLine(item) == SelectSeq(item.annotations, HasLine)

\* the line is the line of the annotation, in the mode of the conversion
IsLineOf(line, ann, item) ==
    /\ line.cls = ann.label
    /\ ~conv.use_segments => IsBoxLineOf(line, ann, item)
    /\ (conv.use_segments /\ Len(ann.segmentation) = 1) => IsRingLineOf(line, ann, item)
    /\ (conv.use_segments /\ Len(ann.segmentation) > 1) =>
          Len(line.coords) >= 2 * Len(Flatten(ann.segmentation))

\* C21: every label file is the file of an image that has annotations in its subset's
\* JSON; an image without annotations has no label file; the label file of an image
\* with annotations holds one line per retained annotation, in their order, and is
\* empty when all are dropped (crowd, width or height <= 0, no segmentation in
\* segmentation mode).
C21_LabelFilePerAnnotatedImage ==
    /\ \A f \in DOMAIN labels : \E i \in Annotated : FileOf(items[i]) = f
    /\ \A i \in 1..Len(items) :
          /\ items[i].annotations = <<>> => FileOf(items[i]) \notin DOMAIN labels
          /\ (Converted(items[i]) /\ items[i].annotations # <<>>) =>
                LET file == FileOf(items[i])
                    kept == WithLine(items[i])
                IN  /\ file \in DOMAIN labels
                    /\ Len(labels[file]) = Len(kept)
                    /\ \A k \in 1..Len(kept) : IsLineOf(labels[file][k], kept[k], items[i])

(***************************************************************************)
(* build_dataset.                                                          *)
(***************************************************************************)
\* C18: build_dataset, called when raw_data_path exists, builds and exports the
\* dataset and returns the path it was saved in; called when raw_data_path does not
\* exist it raises FileNotFoundError and constructs and exports nothing.
C18_BuildReturnsPath ==
    build.pc # "idle" =>
        IF raw_data_exists
        THEN /\ build.pc = "returned"
             /\ ~IsNone(build.returned)
             /\ LastStep = "export"
        ELSE /\ build.raised = "FileNotFoundError"
             /\ ~build.constructed
             /\ pc = "unbuilt"
             /\ NothingWritten

(***************************************************************************)
(* The stitcher, called directly.                                          *)
(***************************************************************************)
Count(s, x) == Cardinality({k \in 1..Len(s) : s[k] = x})
Last(s) == s[Len(s)]
MergeReturned == ~IsNone(merged) /\ Val(merged).raised = "none"
Emitted == Flatten(Val(merged).s)
InputPoints == Flatten(segmentation)
IsInterior(i) == 1 < i /\ i < Len(segmentation)
InteriorRings == {i \in 1..Len(segmentation) : IsInterior(i)}
\* the points the stitcher selected on ring i as nearest to its neighbours
JunctionPoints(i) ==
    {segmentation[i][IdxList(segmentation, i)[k] + 1] :
        k \in 1..Len(IdxList(segmentation, i))}
\* the first point of what the pass k = 0 appended for each ring
StartPoints == [i \in 1..Len(segmentation) |-> Val(merged).s[i][1]]
\* the pairs of 1-based indices into the first two rings
RingPairs == (1..Len(segmentation[1])) \X (1..Len(segmentation[2]))
PairDist(p) == SqDist(segmentation[1][p[1]], segmentation[2][p[2]])

\* C11 (as stated): for two rings or more, once one copy of each ring's start point
\* (the point re-appended to close the ring) is removed, the points the stitcher
\* returns are the input points, each exactly as often as in the input.
C11_EveryPointOnce ==
    (MergeReturned /\ Len(segmentation) >= 2) =>
        \A k \in 1..Len(Emitted) :
            Count(Emitted, Emitted[k])
                = Count(InputPoints, Emitted[k]) + Count(StartPoints, Emitted[k])

\* C11 (amended): no input point is lost and no other point appears; a point is
\* returned once more than it occurs in the input for every ring whose emitted
\* sequence starts with it, and once more for every interior ring whose first-pass
\* range stops at it (the second pass emits that point again).
C11_EveryPointKept ==
    (MergeReturned /\ Len(segmentation) >= 2) =>
        /\ \A k \in 1..Len(InputPoints) : Count(Emitted, InputPoints[k]) >= 1
        /\ \A k \in 1..Len(Emitted) :
              Count(Emitted, Emitted[k])
                  = Count(InputPoints, Emitted[k]) + Count(StartPoints, Emitted[k])
                    + Cardinality({i \in InteriorRings : Last(Val(merged).s[i]) = Emitted[k]})

C11_Witness ==
    /\ MergeReturned
    /\ Len(segmentation) = 3
    /\ OutOfOrder(IdxList(segmentation, 2))
    /\ Len(Val(merged).s) = 4

\* C12: _merge_multi_segment called with exactly one ring returns that ring unchanged
\* and raises nothing.
C12_OneRingUnchanged ==
    (~IsNone(merged) /\ Len(segmentation) = 1) =>
        (Val(merged).raised = "none" /\ Val(merged).s = segmentation)

\* C19: what the first pass emits for a ring starts at a junction point of that ring,
\* and for an interior ring it starts at one junction point and ends at the other.
C19_FirstPassAtJunctions ==
    (MergeReturned /\ Len(segmentation) >= 2) =>
        \A i \in 1..Len(segmentation) :
            /\ Val(merged).s[i][1] \in JunctionPoints(i)
            /\ IsInterior(i) =>
                  {Val(merged).s[i][1], Last(Val(merged).s[i])} = JunctionPoints(i)

\* C20: _min_index returns a pair of minimal squared distance over all pairs of
\* points of the two rings, and of the pairs at that distance the first in row-major
\* order (smallest a, then smallest b).
C20_MinIndexFirstMinimum ==
    ~IsNone(nearest) =>
        /\ <<Val(nearest)[1] + 1, Val(nearest)[2] + 1>> \in RingPairs
        /\ \A p \in RingPairs :
              \/ PairDist(<<Val(nearest)[1] + 1, Val(nearest)[2] + 1>>) < PairDist(p)
              \/ /\ PairDist(<<Val(nearest)[1] + 1, Val(nearest)[2] + 1>>) = PairDist(p)
                 /\ \/ Val(nearest)[1] + 1 < p[1]
                    \/ (Val(nearest)[1] + 1 = p[1] /\ Val(nearest)[2] + 1 <= p[2])

\* _min_index has returned for two rings that have several pairs at the minimum
C20_Witness ==
    /\ ~IsNone(nearest)
    /\ \E p \in RingPairs :
          /\ p # <<Val(nearest)[1] + 1, Val(nearest)[2] + 1>>
          /\ PairDist(p) = PairDist(<<Val(nearest)[1] + 1, Val(nearest)[2] + 1>>)

(***************************************************************************)
(* main.                                                                   *)
(***************************************************************************)
\* the run could list the raw data directory, where it had to
CouldList == options.only_build_dataset \/ raw_data_exists

\* C22: in every run of main the download step runs only when only_build_dataset is
\* false and the raw data directory is empty, and the build step only when
\* <save_path>_<format> does not exist; a run that finds that directory reports the
\* dataset as already built and does not build; a run after a run that built the
\* dataset finds the directory and neither downloads nor builds.
C22_SecondRunSkips ==
    \A k \in 1..Len(runs) :
        /\ runs[k].downloaded => (~options.only_build_dataset /\ runs[k].raw_was_empty)
        /\ runs[k].built => ~runs[k].dir_existed
        /\ (runs[k].dir_existed /\ CouldList) =>
              /\ "Dataset already built" \in runs[k].reported
              /\ ~runs[k].built
        /\ (k > 1 /\ runs[k - 1].built) =>
              /\ runs[k].dir_existed
              /\ ~runs[k].downloaded
              /\ ~runs[k].built

====
